---- MODULE Spec2Model ----
(***************************************************************************)
(* A model of trwbl (src/trwbl.py): an in-process inverted index with a    *)
(* bare-word query scorer and whole-state pickle persistence.              *)
(*                                                                         *)
(* Conventions.  A Python string is a tuple of one-character strings, so   *)
(* that tokenizing and query parsing are computed, not assumed.  Python's  *)
(* None is the empty tuple and a present optional value x is <<x>>.  A     *)
(* Python dict is a function; the empty dict is the empty function <<>>.   *)
(* An exception is the name of its class; NoExc means normal completion.   *)
(***************************************************************************)
EXTENDS Integers, Sequences, FiniteSets, TLC

VARIABLES
    heap,   \* Document objects by address: fields, id, score
    idx,    \* per Index instance: its __dict__ (empty until established)
    file,   \* the snapshot file 'index': None or <<blob>>
    cache,  \* the memcache entry for 'index': None or <<blob>>
    last,   \* the last call made: operation, instance, exception
    calls,  \* the number of calls made so far
    scoring \* the score statement of _word_search: score, exception, uses

vars == <<heap, idx, file, cache, last, calls, scoring>>

(***************************************************************************)
(* Bounds of the model.                                                    *)
(***************************************************************************)
MaxDocs == 2   \* Index.add is not called once doc_counter has reached this
MaxObjs == 2   \* Document objects the caller constructs
MaxCalls == 4  \* calls made in one behaviour
MaxUpdates == 2    \* score updates applied to one document's score
MaxDistances == 3  \* location pairs entering one update

IndexIds == {1, 2}

None == <<>>
Some(x) == <<x>>
NoExc == "ok"
EmptyDict == <<>>

Put(f, k, v) == [x \in (DOMAIN f) \cup {k} |-> IF x = k THEN v ELSE f[x]]

Range(s) == {s[k] : k \in DOMAIN s}

(***************************************************************************)
(* Characters.  \w and ' are the token characters of Tokenizer's default   *)
(* pattern; the others only occur in queries.                              *)
(***************************************************************************)
WordChars == {"a", "b", "A", "B"}
SpaceChars == {" "}

lower(c) == CASE c = "A" -> "a" [] c = "B" -> "b" [] OTHER -> c

\* the end (exclusive) of the longest run of characters of cs starting at i
RECURSIVE RunEnd(_, _, _)
RunEnd(s, i, cs) ==
    IF i <= Len(s) /\ s[i] \in cs THEN RunEnd(s, i + 1, cs) ELSE i

\* re.findall(r"[\w']+", s): the maximal runs of token characters, in order
RECURSIVE FindAllWords(_, _)
FindAllWords(s, i) ==
    IF i > Len(s) THEN <<>>
    ELSE IF s[i] \in WordChars
         THEN LET e == RunEnd(s, i, WordChars)
              IN  <<SubSeq(s, i, e - 1)>> \o FindAllWords(s, e)
         ELSE FindAllWords(s, i + 1)

\* Tokenizer.tokenize with lower=True, and TokenizerNot.tokenize.  The
\* result is [exc, tokens]; re.findall on None raises TypeError.
NoneValue == [kind |-> "none"]
StrValue(s) == [kind |-> "str", s |-> s]
ListValue(l) == [kind |-> "list", items |-> l]

TokenizerTokenize(value) ==
    IF value.kind # "str" THEN [exc |-> "TypeError", tokens |-> <<>>]
    ELSE LET ts == FindAllWords(value.s, 1)
         IN  [exc |-> NoExc,
              tokens |-> [k \in DOMAIN ts |->
                            [j \in DOMAIN ts[k] |-> lower(ts[k][j])]]]

\* the key under which TokenizerNot records a None value
NoneToken == <<"None">>

TokenizerNotTokenize(value) ==
    [exc |-> NoExc,
     tokens |-> <<IF value.kind = "str" THEN value.s ELSE NoneToken>>]

tokenize(tokenizer, value) ==
    IF tokenizer = "Tokenizer" THEN TokenizerTokenize(value)
    ELSE TokenizerNotTokenize(value)

(***************************************************************************)
(* Field: the schema entry and its posting map                             *)
(*   tokens : token -> document id -> field id -> list of token ids.       *)
(* Weights are in tenths.                                                  *)
(***************************************************************************)
Field(name, index, store, copy_to, weight, tokenizer) ==
    [name |-> name, index |-> index, store |-> store, copy_to |-> copy_to,
     weight |-> weight, tokenizer |-> tokenizer, tokens |-> EmptyDict]

\* the body of Field.add's inner loop: one posting (lines 229-240)
AddLocation(tokens, value, document_id, field_id, token_id) ==
    IF value \in DOMAIN tokens
    THEN LET document_ids == tokens[value]
         IN  IF document_id \in DOMAIN document_ids
             THEN LET field_ids == document_ids[document_id]
                  IN  IF field_id \in DOMAIN field_ids
                      THEN Put(tokens, value, Put(document_ids, document_id,
                             Put(field_ids, field_id,
                                 Append(field_ids[field_id], token_id))))
                      ELSE Put(tokens, value, Put(document_ids, document_id,
                             Put(field_ids, field_id, <<token_id>>)))
             ELSE Put(tokens, value,
                      Put(document_ids, document_id,
                          [f \in {field_id} |-> <<token_id>>]))
    ELSE Put(tokens, value,
             [d \in {document_id} |-> [f \in {field_id} |-> <<token_id>>]])

\* enumerate(token_values): token ids start at 0
RECURSIVE AddTokens(_, _, _, _, _)
AddTokens(tokens, token_values, document_id, field_id, k) ==
    IF k > Len(token_values) THEN tokens
    ELSE AddTokens(AddLocation(tokens, token_values[k], document_id,
                               field_id, k - 1),
                   token_values, document_id, field_id, k + 1)

\* enumerate(field_values): field ids start at 0; a tokenizer failure
\* leaves the postings of the earlier values in place
RECURSIVE AddValues(_, _, _, _)
AddValues(field, field_values, document_id, k) ==
    IF k > Len(field_values) THEN [exc |-> NoExc, field |-> field]
    ELSE LET t == tokenize(field.tokenizer, field_values[k])
         IN  IF t.exc # NoExc THEN [exc |-> t.exc, field |-> field]
             ELSE AddValues(
                    [field EXCEPT !.tokens =
                        AddTokens(field.tokens, t.tokens, document_id,
                                  k - 1, 1)],
                    field_values, document_id, k + 1)

\* Field.add: a value with __iter__ (a list) is a list of values, anything
\* else (a string, None) is one value
FieldAdd(field, field_value, document_id) ==
    AddValues(field,
              IF field_value.kind = "list"
              THEN [k \in DOMAIN field_value.items |->
                        StrValue(field_value.items[k])]
              ELSE <<field_value>>,
              document_id, 1)

(***************************************************************************)
(* Document: a dictionary of fields with an id and a score, both None      *)
(* until the index sets them.  Documents live on the heap because the      *)
(* index stores the caller's object, not a copy.                           *)
(***************************************************************************)
Document(fields) == [fields |-> fields, id |-> None, score |-> None]

NoObj == [free |-> TRUE]

CallerAddrs == {<<0, k>> : k \in 1..MaxObjs}
LoadedAddrs == {<<i, k>> : i \in IndexIds, k \in 1..MaxDocs}
Addrs == CallerAddrs \cup LoadedAddrs

(***************************************************************************)
(* Index.__init__ with fields.  IndexFieldDict.__setitem__ refuses a name  *)
(* that is already a key; weighted_fields is kept sorted by (weight, name) *)
(* in descending order.  Field names compare as Python strings do.         *)
(***************************************************************************)
FieldNameOrder == <<"content", "keyword", "keyword_str", "title">>

NameRank(name) == CHOOSE k \in DOMAIN FieldNameOrder : FieldNameOrder[k] = name

\* (w1, n1) > (w2, n2) on tuples
PairGreater(p, q) ==
    \/ p[1] > q[1]
    \/ p[1] = q[1] /\ NameRank(p[2]) > NameRank(q[2])

\* append, sort, reverse on a list that is already in descending order
RECURSIVE InsertDescending(_, _)
InsertDescending(l, p) ==
    IF l = <<>> THEN <<p>>
    ELSE IF PairGreater(p, Head(l)) THEN <<p>> \o l
         ELSE <<Head(l)>> \o InsertDescending(Tail(l), p)

\* IndexFieldDictSetItem as a plain dict would do it: the later field
\* replaces the earlier one
IndexFieldDictSetItemReplacing(fields, field_name, field) ==
    [exc |-> NoExc, fields |-> Put(fields, field_name, field)]

IndexFieldDictSetItem(fields, field_name, field) ==
    IF field_name \in DOMAIN fields
    THEN [exc |-> "IndexException", fields |-> fields]
    ELSE [exc |-> NoExc, fields |-> Put(fields, field_name, field)]

RECURSIVE InitFields(_, _, _)
InitFields(d, fields, k) ==
    IF k > Len(fields) THEN [exc |-> NoExc, dict |-> d]
    ELSE LET field == fields[k]
             set == IndexFieldDictSetItem(d.fields, field.name, field)
         IN  IF set.exc # NoExc THEN [exc |-> set.exc, dict |-> d]
             ELSE InitFields(
                    [d EXCEPT !.fields = set.fields,
                              !.weighted_fields =
                                 IF field.index /\ field.weight # 0
                                 THEN InsertDescending(@,
                                        <<field.weight, field.name>>)
                                 ELSE @],
                    fields, k + 1)

\* Index(fields=fields); an empty field list is falsy and sets nothing
IndexInit(fields) ==
    IF fields = <<>> THEN [exc |-> NoExc, dict |-> EmptyDict]
    ELSE InitFields([documents |-> EmptyDict, doc_counter |-> 0,
                     fields |-> EmptyDict, weighted_fields |-> <<>>],
                    fields, 1)

\* IndexFieldDict.__getitem__
FieldDefined(d, field_name) == field_name \in DOMAIN d.fields

(***************************************************************************)
(* Index.add.  The id is taken and the document stored before any field is *)
(* looked at; the fields are then visited in the dictionary's order, which *)
(* the caller does not control (order is one of its permutations).         *)
(***************************************************************************)
\* index_field.add(...) when the field is indexed (lines 393-394)
AddIndexed(d, field_name, field_value, id) ==
    IF d.fields[field_name].index
    THEN LET r == FieldAdd(d.fields[field_name], field_value, id)
         IN  [exc |-> r.exc,
              dict |-> [d EXCEPT !.fields[field_name] = r.field]]
    ELSE [exc |-> NoExc, dict |-> d]

\* the copy_to step (lines 395-398)
AddCopy(d, field_name, field_value, id) ==
    LET copy_to == d.fields[field_name].copy_to
    IN  IF copy_to = None THEN [exc |-> NoExc, dict |-> d]
        ELSE IF ~FieldDefined(d, copy_to[1])
             THEN [exc |-> "IndexException", dict |-> d]
             ELSE AddIndexed(d, copy_to[1], field_value, id)

\* one iteration of "for field in document" (lines 391-400)
AddField(d, hp, addr, id, field_name) ==
    IF ~FieldDefined(d, field_name)
    THEN [exc |-> "IndexException", dict |-> d, heap |-> hp]
    ELSE LET field_value == hp[addr].fields[field_name]
             a == AddIndexed(d, field_name, field_value, id)
             c == AddCopy(a.dict, field_name, field_value, id)
         IN  IF a.exc # NoExc
             THEN [exc |-> a.exc, dict |-> a.dict, heap |-> hp]
             ELSE IF c.exc # NoExc
             THEN [exc |-> c.exc, dict |-> c.dict, heap |-> hp]
             ELSE [exc |-> NoExc, dict |-> c.dict,
                   heap |-> IF ~d.fields[field_name].store
                            THEN [hp EXCEPT ![addr].fields[field_name] =
                                                NoneValue]
                            ELSE hp]

RECURSIVE AddFields(_, _, _, _, _, _)
AddFields(d, hp, addr, id, order, k) ==
    IF k > Len(order) THEN [exc |-> NoExc, dict |-> d, heap |-> hp]
    ELSE LET r == AddField(d, hp, addr, id, order[k])
         IN  IF r.exc # NoExc THEN r
             ELSE AddFields(r.dict, r.heap, addr, id, order, k + 1)

IndexAdd(d, hp, addr, order) ==
    IF d = EmptyDict  \* no doc_counter attribute
    THEN [exc |-> "AttributeError", dict |-> d, heap |-> hp]
    ELSE LET id == d.doc_counter
         IN  AddFields([d EXCEPT !.doc_counter = id + 1,
                                 !.documents = Put(@, id, addr)],
                       [hp EXCEPT ![addr].id = Some(id)],
                       addr, id, order, 1)

Orders(S) ==
    {o \in [1..Cardinality(S) -> S] : \A j, k \in DOMAIN o : o[j] = o[k] => j = k}

(***************************************************************************)
(* TokenLocations.get_consecutive on location maps                         *)
(*   document id -> field id -> list of token ids.                         *)
(* A token id of self is kept when it is among the token ids that          *)
(* previous_locations has for the same document and field id; documents    *)
(* and field ids with nothing kept do not appear in the result.            *)
(***************************************************************************)
get_consecutive(self, previous_locations) ==
    LET kept(doc_id, field_id) ==
            SelectSeq(self[doc_id][field_id],
                      LAMBDA token_id :
                         token_id \in
                            Range(previous_locations[doc_id][field_id]))
        field_ids(doc_id) ==
            {field_id \in (DOMAIN self[doc_id])
                            \cap (DOMAIN previous_locations[doc_id]) :
                kept(doc_id, field_id) # <<>>}
        doc_ids ==
            {doc_id \in (DOMAIN self) \cap (DOMAIN previous_locations) :
                field_ids(doc_id) # {}}
    IN  [doc_id \in doc_ids |->
            [field_id \in field_ids(doc_id) |-> kept(doc_id, field_id)]]

(***************************************************************************)
(* parse_query: QUERY_RE.findall.  A part is the tuple of the six groups   *)
(* (phrase, field_op, field, field_query, word_op, word), '' being <<>>.   *)
(* The alternatives are tried in the pattern's order at each position and  *)
(* the scan resumes after a match.                                         *)
(***************************************************************************)
OpChars == {"+", "-"}
IsSpace(c) == c \in SpaceChars

Part(phrase, field_op, field, field_query, word_op, word) ==
    [phrase |-> phrase, field_op |-> field_op, field |-> field,
     field_query |-> field_query, word_op |-> word_op, word |-> word]

NoMatch == [ok |-> FALSE]
Match(part, end) == [ok |-> TRUE, part |-> part, end |-> end]

\* the end (exclusive) of the longest run of non-whitespace from i
RECURSIVE NonSpaceEnd(_, _)
NonSpaceEnd(q, i) ==
    IF i <= Len(q) /\ ~IsSpace(q[i]) THEN NonSpaceEnd(q, i + 1) ELSE i

\* .+?(?:c|$) from i: the first position j > i holding c, or the end
RECURSIVE LazyUntil(_, _, _)
LazyUntil(q, j, c) ==
    IF j > Len(q) \/ q[j] = c THEN j ELSE LazyUntil(q, j + 1, c)

\* "(.+?)(?:"|$)
MatchPhrase(q, i) ==
    IF q[i] = "\"" /\ i + 1 <= Len(q)
    THEN LET j == LazyUntil(q, i + 2, "\"")
         IN  Match(Part(SubSeq(q, i + 1, j - 1), <<>>, <<>>, <<>>, <<>>, <<>>),
                   IF j <= Len(q) THEN j + 1 ELSE j)
    ELSE NoMatch

\* the fourth group from i: quoted, parenthesized, or non-whitespace; the
\* result is the end (exclusive) of the group, 0 when nothing matches
FieldQueryEnd(q, i) ==
    IF i > Len(q) \/ IsSpace(q[i]) THEN 0
    ELSE IF q[i] = "\"" /\ i + 1 <= Len(q)
         THEN LET j == LazyUntil(q, i + 2, "\"")
              IN  IF j <= Len(q) THEN j + 1 ELSE j
    ELSE IF q[i] = "(" /\ i + 1 <= Len(q)
         THEN LET j == LazyUntil(q, i + 2, ")")
              IN  IF j <= Len(q) THEN j + 1 ELSE j
    ELSE NonSpaceEnd(q, i)

\* ([\S]+):(...) with the name starting at s: the greedy name gives back
\* characters until a colon followed by a fourth group is found
MatchFieldFrom(q, s, op) ==
    LET r == NonSpaceEnd(q, s)
        colons == {e \in (s + 1)..(r - 1) :
                      q[e] = ":" /\ FieldQueryEnd(q, e + 1) # 0}
    IN  IF colons = {} THEN NoMatch
        ELSE LET e == CHOOSE c \in colons : \A c2 \in colons : c2 <= c
                 end == FieldQueryEnd(q, e + 1)
             IN  Match(Part(<<>>, op, SubSeq(q, s, e - 1),
                            SubSeq(q, e + 1, end - 1), <<>>, <<>>), end)

\* ([+-]?)([\S]+):(...): the optional sign is taken first, given up last
MatchField(q, i) ==
    LET signed == IF q[i] \in OpChars
                  THEN MatchFieldFrom(q, i + 1, <<q[i]>>) ELSE NoMatch
    IN  IF signed.ok THEN signed ELSE MatchFieldFrom(q, i, <<>>)

\* ([+-]?)([\S]+)
MatchWord(q, i) ==
    IF IsSpace(q[i]) THEN NoMatch
    ELSE IF q[i] \in OpChars /\ NonSpaceEnd(q, i + 1) > i + 1
         THEN LET end == NonSpaceEnd(q, i + 1)
              IN  Match(Part(<<>>, <<>>, <<>>, <<>>, <<q[i]>>,
                             SubSeq(q, i + 1, end - 1)), end)
    ELSE LET end == NonSpaceEnd(q, i)
         IN  Match(Part(<<>>, <<>>, <<>>, <<>>, <<>>,
                        SubSeq(q, i, end - 1)), end)

RECURSIVE ScanQuery(_, _)
ScanQuery(q, i) ==
    IF i > Len(q) THEN <<>>
    ELSE LET m == IF MatchPhrase(q, i).ok THEN MatchPhrase(q, i)
                  ELSE IF MatchField(q, i).ok THEN MatchField(q, i)
                  ELSE MatchWord(q, i)
         IN  IF m.ok THEN <<m.part>> \o ScanQuery(q, m.end)
             ELSE ScanQuery(q, i + 1)

parse_query(query) == ScanQuery(query, 1)

(***************************************************************************)
(* ResultSet.  document_scores is a list of (score, document id); a state  *)
(* of the search is [exc, document_scores, previous_locations].            *)
(***************************************************************************)
\* the token loop of _word_search (lines 301-316): the tokens absent from
\* the field are skipped; a second present token calls get_consecutive on
\* the posting map, which is a plain dict and has no such method
WordLocations(index_field, word) ==
    LET tokens == tokenize(index_field.tokenizer, StrValue(word)).tokens
        present == SelectSeq(tokens, LAMBDA t : t \in DOMAIN index_field.tokens)
    IN  IF Len(present) >= 2
        THEN [exc |-> "AttributeError", locations |-> None]
        ELSE IF Len(present) = 1
             THEN [exc |-> NoExc,
                   locations |-> Some(index_field.tokens[present[1]])]
             ELSE [exc |-> NoExc, locations |-> None]

\* lines 318-319: "x[1] not in locations" is evaluated once per candidate
\* and fails on None
ExcludeLocated(document_scores, locations) ==
    IF document_scores = <<>>
    THEN [exc |-> NoExc, document_scores |-> <<>>]
    ELSE IF locations = None
         THEN [exc |-> "TypeError", document_scores |-> document_scores]
         ELSE [exc |-> NoExc,
               document_scores |->
                  SelectSeq(document_scores,
                            LAMBDA x : x[2] \notin DOMAIN locations[1])]

\* the loop over weighted_fields for an exclusion, from the k-th field on
RECURSIVE ExcludeFields(_, _, _, _, _)
ExcludeFields(d, document_scores, word, k, locations) ==
    IF k > Len(d.weighted_fields)
    THEN [exc |-> NoExc, document_scores |-> document_scores,
          previous_locations |-> locations]
    ELSE LET index_field == d.fields[d.weighted_fields[k][2]]
             l == WordLocations(index_field, word)
             x == ExcludeLocated(document_scores, l.locations)
         IN  IF l.exc # NoExc
             THEN [exc |-> l.exc, document_scores |-> document_scores,
                   previous_locations |-> locations]
             ELSE IF x.exc # NoExc
             THEN [exc |-> x.exc, document_scores |-> document_scores,
                   previous_locations |-> locations]
             ELSE ExcludeFields(d, x.document_scores, word, k + 1,
                                l.locations)

\* the first weighted field of an inclusion (lines 298-322): after the
\* token loop the call of self._get_distances fails, ResultSet having no
\* such attribute; nothing below line 321 is ever executed
IncludeFirstField(d, rs, word) ==
    LET index_field == d.fields[d.weighted_fields[1][2]]
        l == WordLocations(index_field, word)
    IN  [rs EXCEPT !.exc = IF l.exc # NoExc THEN l.exc ELSE "AttributeError"]

\* _word_search.  With no weighted field the loop body never runs and the
\* final "self.previous_locations = locations" reads an unbound local.
_word_search(d, rs, word, word_op) ==
    LET negative == (word_op = <<"-">>)
    IN  IF d.weighted_fields = <<>>
        THEN [rs EXCEPT !.exc = "UnboundLocalError",
                        !.document_scores = IF negative THEN @ ELSE <<>>]
        ELSE IF negative
             THEN ExcludeFields(d, rs.document_scores, word, 1, None)
             ELSE IncludeFirstField(d, rs, word)

\* one part of the query (lines 260-270): _phrase_search is "pass"; a
\* field query calls field_query_parse, a name that is not defined
SearchPart(d, rs, part) ==
    IF part.field_query # <<>> THEN [rs EXCEPT !.exc = "NameError"]
    ELSE IF part.word # <<>> THEN _word_search(d, rs, part.word, part.word_op)
    ELSE rs

RECURSIVE SearchParts(_, _, _, _)
SearchParts(d, rs, parts, k) ==
    IF k > Len(parts) \/ rs.exc # NoExc THEN rs
    ELSE SearchParts(d, SearchPart(d, rs, parts[k]), parts, k + 1)

\* list.sort() then reverse() on (score, id) tuples: descending
RECURSIVE SortedDescending(_)
SortedDescending(S) ==
    IF S = {} THEN <<>>
    ELSE LET m == CHOOSE x \in S : \A y \in S :
                     x[1] > y[1] \/ (x[1] = y[1] /\ x[2] >= y[2])
         IN  <<m>> \o SortedDescending(S \ {m})

\* SetScores as "document['score'] = score" would do it: the score goes
\* among the document's fields
SetScoresAsField(d, hp, document_scores, k) ==
    [a \in DOMAIN hp |->
        IF \E j \in DOMAIN document_scores :
              d.documents[document_scores[j][2]] = a
        THEN [hp[a] EXCEPT !.fields = Put(@, "score", NoneValue)]
        ELSE hp[a]]

\* populate: the documents in that order, each given its score
RECURSIVE SetScores(_, _, _, _)
SetScores(d, hp, document_scores, k) ==
    IF k > Len(document_scores) THEN hp
    ELSE SetScores(d,
                   [hp EXCEPT ![d.documents[document_scores[k][2]]].score =
                                 Some(document_scores[k][1])],
                   document_scores, k + 1)

\* populate without the reverse(): the documents in ascending order
populateAscending(d, hp, rs) ==
    LET sorted == SortedDescending(Range(rs.document_scores))
        n == Len(sorted)
        ascending == [k \in 1..n |-> sorted[n + 1 - k]]
    IN  [exc |-> NoExc,
         document_scores |-> ascending,
         documents |-> [k \in 1..n |-> d.documents[ascending[k][2]]],
         heap |-> SetScores(d, hp, ascending, 1)]

populate(d, hp, rs) ==
    LET sorted == SortedDescending(Range(rs.document_scores))
    IN  [exc |-> NoExc,
         document_scores |-> sorted,
         documents |-> [k \in DOMAIN sorted |-> d.documents[sorted[k][2]]],
         heap |-> SetScores(d, hp, sorted, 1)]

\* the keys of a dict of small integers, in iteration order (ascending)
RECURSIVE Ascending(_)
Ascending(S) ==
    IF S = {} THEN <<>>
    ELSE LET m == CHOOSE x \in S : \A y \in S : x <= y
         IN  <<m>> \o Ascending(S \ {m})

IdList(documents) == Ascending(DOMAIN documents)

\* Index.search: ResultSet(self, query)
IndexSearch(d, hp, query) ==
    IF d = EmptyDict  \* no documents attribute
    THEN [exc |-> "AttributeError", document_scores |-> <<>>,
          documents |-> <<>>, heap |-> hp]
    ELSE LET ids == IdList(d.documents)
             rs0 == [exc |-> NoExc,
                     document_scores |-> [k \in DOMAIN ids |-> <<0, ids[k]>>],
                     previous_locations |-> Some(EmptyDict)]
             rs == SearchParts(d, rs0, parse_query(query), 1)
         IN  IF rs.exc # NoExc
             THEN [exc |-> rs.exc, document_scores |-> rs.document_scores,
                   documents |-> <<>>, heap |-> hp]
             ELSE populate(d, hp, rs)

(***************************************************************************)
(* Persistence.  pickle.dumps(self.__dict__) writes the object graph: each *)
(* Document once (pickle's memo), the document store referring to it by    *)
(* its place in the memo.  pickle.loads builds new objects, here at the    *)
(* addresses <<i, k>> of the loading instance i.                           *)
(***************************************************************************)
\* the distinct addresses of a list, in order of first appearance
RECURSIVE Memo(_, _)
Memo(addrs, seen) ==
    IF addrs = <<>> THEN seen
    ELSE Memo(Tail(addrs),
              IF Head(addrs) \in Range(seen) THEN seen
              ELSE Append(seen, Head(addrs)))

MemoIndex(memo, addr) == CHOOSE k \in DOMAIN memo : memo[k] = addr

\* IndexDump as the abandoned two-part save would do it (documents and
\* fields only): the id counter is not written
IndexDumpWithoutCounter(d, hp) ==
    IF d = EmptyDict THEN [objs |-> <<>>, dict |-> EmptyDict]
    ELSE LET ids == IdList(d.documents)
             memo == Memo([k \in DOMAIN ids |-> d.documents[ids[k]]], <<>>)
         IN  [objs |-> [k \in DOMAIN memo |-> hp[memo[k]]],
              dict |-> [d EXCEPT !.doc_counter = 0,
                                 !.documents =
                           [id \in DOMAIN d.documents |->
                               MemoIndex(memo, d.documents[id])]]]

IndexDump(d, hp) ==
    IF d = EmptyDict THEN [objs |-> <<>>, dict |-> EmptyDict]
    ELSE LET ids == IdList(d.documents)
             memo == Memo([k \in DOMAIN ids |-> d.documents[ids[k]]], <<>>)
         IN  [objs |-> [k \in DOMAIN memo |-> hp[memo[k]]],
              dict |-> [d EXCEPT !.documents =
                           [id \in DOMAIN d.documents |->
                               MemoIndex(memo, d.documents[id])]]]

\* pickle.loads, the objects placed at the addresses of instance i
Unpickle(i, hp, blob) ==
    [dict |-> IF blob.dict = EmptyDict THEN EmptyDict
              ELSE [blob.dict EXCEPT !.documents =
                       [id \in DOMAIN blob.dict.documents |->
                           <<i, blob.dict.documents[id]>>]],
     heap |-> [a \in DOMAIN hp |->
                 IF a[1] = i /\ a[2] \in DOMAIN blob.objs
                 THEN blob.objs[a[2]] ELSE hp[a]]]

\* IndexLoad without the guard: the loaded state replaces what is there
IndexLoadReplacing(i, d, hp, blob) ==
    LET u == Unpickle(i, hp, blob)
    IN  [exc |-> NoExc, dict |-> u.dict, heap |-> u.heap]

\* Index.load: refused when __dict__ is not empty
IndexLoad(i, d, hp, blob) ==
    IF d # EmptyDict
    THEN [exc |-> "IndexException", dict |-> d, heap |-> hp]
    ELSE LET u == Unpickle(i, hp, blob)
         IN  [exc |-> NoExc, dict |-> u.dict, heap |-> u.heap]

\* Index.open, lines 418-427: what mc.get returns (get_mc gives an empty
\* dict when the memcache module is missing), else the file's contents;
\* <<>> when there is no file to read
OpenSource(mc, cached, onfile) ==
    IF mc /\ cached # None THEN cached ELSE onfile

IndexOpen(i, d, hp, mc, cached, onfile) ==
    LET dumped_index == OpenSource(mc, cached, onfile)
    IN  IF dumped_index = None
        THEN [exc |-> "IOError", dict |-> d, heap |-> hp, blob |-> None]
        ELSE LET r == IndexLoad(i, d, hp, dumped_index[1])
             IN  [exc |-> r.exc, dict |-> r.dict, heap |-> r.heap,
                  blob |-> dumped_index]

\* Index.save, lines 430-438: the file is written, then the cache when
\* there is a memcache client
SaveCache(mc, cached, dumped_index) ==
    IF mc THEN Some(dumped_index) ELSE cached

(***************************************************************************)
(* The score statement of _word_search, lines 336-346, on exact fractions  *)
(* <<numerator, denominator>>.  distances are token_id differences, weight *)
(* is a field weight in tenths.                                            *)
(***************************************************************************)
RECURSIVE GCD(_, _)
GCD(a, b) == IF b = 0 THEN a ELSE GCD(b, a % b)

Abs(x) == IF x < 0 THEN 0 - x ELSE x

Rat(n, d) == LET g == GCD(Abs(n), d) IN <<n \div g, d \div g>>
RatAdd(p, q) ==
    LET l == (p[2] \div GCD(p[2], q[2])) * q[2]
    IN  Rat(p[1] * (l \div p[2]) + q[1] * (l \div q[2]), l)
RatMul(p, q) == Rat(p[1] * q[1], p[2] * q[2])
RatOneMinus(p) == Rat(p[2] - p[1], p[2])

\* 0.01 / distance after the distance has been adjusted (lines 338-344):
\* 1 becomes 1/4, 2..4 are halved, a negative one loses its sign
WeightMod(distance) ==
    IF distance = 1 THEN Rat(4, 100)
    ELSE IF 1 < distance /\ distance < 5 THEN Rat(2, 100 * distance)
    ELSE Rat(1, 100 * Abs(distance))

\* sum(weight_mod), weight_mod being [1] and one term per distance
RECURSIVE SumWeightMod(_, _)
SumWeightMod(distances, k) ==
    IF k > Len(distances) THEN Rat(1, 1)
    ELSE RatAdd(WeightMod(distances[k]), SumWeightMod(distances, k + 1))

\* lines 336-346; 0.01 / 0 raises ZeroDivisionError
ScoreUpdate(score, weight, distances) ==
    IF \E k \in DOMAIN distances : distances[k] = 0
    THEN [exc |-> "ZeroDivisionError", score |-> score]
    ELSE LET modified_weight ==
                 RatMul(Rat(weight, 10), SumWeightMod(distances, 1))
         IN  [exc |-> NoExc,
              score |-> RatAdd(score,
                               RatMul(RatOneMinus(score), modified_weight))]

(***************************************************************************)
(* The inputs the calls are made with.                                     *)
(***************************************************************************)
\* the schema of the module's example (lines 9-15, the author field left
\* out), a schema with one weighted field, and one naming a field twice
ExampleFields ==
    << Field("title", TRUE, TRUE, None, 9, "Tokenizer"),
       Field("keyword", TRUE, TRUE, Some("keyword_str"), 5, "Tokenizer"),
       Field("keyword_str", TRUE, TRUE, None, 0, "TokenizerNot"),
       Field("content", TRUE, FALSE, None, 1, "Tokenizer") >>

TitleFields ==
    << Field("title", TRUE, TRUE, None, 9, "Tokenizer") >>

TwiceFields ==
    << Field("title", TRUE, TRUE, None, 9, "Tokenizer"),
       Field("title", TRUE, TRUE, None, 5, "Tokenizer") >>

Schemas == {ExampleFields, TitleFields, TwiceFields}

DocInputs ==
    { [title |-> StrValue(<<"A", " ", "b">>)],
      [title |-> StrValue(<<"a">>)],
      [title |-> StrValue(<<"b">>),
       keyword |-> ListValue(<< <<"a">>, <<"b", " ", "a">> >>)],
      [title |-> StrValue(<<"a">>), content |-> StrValue(<<"b", " ", "a">>)] }

Queries ==
    { <<"a">>, <<"b">>, <<"+", "b">>, <<"a", " ", "b">>,
      <<"-", "a">>, <<"-", "b">>, <<"-", "a", "-", "b">>,
      <<"\"", "a", " ", "b", "\"">>, <<"t", ":", "a">> }

(***************************************************************************)
(* The state machine: one action per call.                                 *)
(***************************************************************************)
Call(op, i, exc) == [op |-> op, i |-> i, exc |-> exc]

\* every action is one call made by the caller, MaxCalls at most
Called ==
    /\ calls < MaxCalls
    /\ calls' = calls + 1
    /\ UNCHANGED scoring

\* Instance 1 is the writer, as artsearch.create_index builds it:
\* Index(fields=...) with a schema that construction accepts.  The other
\* instance is a new Index(), to be constructed or opened.
WriterSchemas == {ExampleFields, TitleFields}

Init ==
    /\ heap = [a \in Addrs |-> NoObj]
    /\ \E fields \in WriterSchemas :
          idx = [i \in IndexIds |->
                    IF i = 1 THEN IndexInit(fields).dict ELSE EmptyDict]
    /\ file = None
    /\ cache = None
    /\ last = Call("none", 0, NoExc)
    /\ calls = 0
    /\ scoring = [score |-> Rat(0, 1), exc |-> NoExc, updates |-> 0]

\* index = Index(fields=fields): a new instance, kept in slot i
Construct(i, fields) ==
    /\ Called
    /\ idx[i] = EmptyDict
    /\ LET r == IndexInit(fields)
       IN  /\ idx' = IF r.exc = NoExc THEN [idx EXCEPT ![i] = r.dict] ELSE idx
           /\ last' = Call("construct", i, r.exc)
    /\ UNCHANGED <<heap, file, cache>>

\* doc = Document(**fields)
NewDocument(fields) ==
    /\ Called
    /\ \E k \in 1..MaxObjs :
          /\ heap[<<0, k>>] = NoObj
          /\ \A j \in 1..(k - 1) : heap[<<0, j>>] # NoObj
          /\ heap' = [heap EXCEPT ![<<0, k>>] = Document(fields)]
          /\ last' = Call("document", 0, NoExc)
    /\ UNCHANGED <<idx, file, cache>>

\* index.add(doc)
Add(i, addr) ==
    /\ Called
    /\ heap[addr] # NoObj
    /\ idx[i] # EmptyDict => idx[i].doc_counter < MaxDocs
    /\ \E order \in Orders(DOMAIN heap[addr].fields) :
          LET r == IndexAdd(idx[i], heap, addr, order)
          IN  /\ idx' = [idx EXCEPT ![i] = r.dict]
              /\ heap' = r.heap
              /\ last' = Call("add", i, r.exc)
    /\ UNCHANGED <<file, cache>>

\* index.search(query)
Search(i, query) ==
    /\ Called
    /\ LET r == IndexSearch(idx[i], heap, query)
       IN  /\ heap' = r.heap
           /\ last' = Call("search", i, r.exc)
    /\ UNCHANGED <<idx, file, cache>>

\* index.save('index'), in a process with (mc) or without the memcache
\* module
Save(i, mc) ==
    /\ Called
    /\ LET dumped_index == IndexDump(idx[i], heap)
       IN  /\ file' = Some(dumped_index)
           /\ cache' = SaveCache(mc, cache, dumped_index)
           /\ last' = Call("save", i, NoExc)
    /\ UNCHANGED <<heap, idx>>

\* index.open('index'); Index('index') is this call on a new instance
Open(i, mc) ==
    /\ Called
    /\ LET r == IndexOpen(i, idx[i], heap, mc, cache, file)
       IN  /\ idx' = [idx EXCEPT ![i] = r.dict]
           /\ heap' = r.heap
           /\ last' = Call("open", i, r.exc)
    /\ UNCHANGED <<file, cache>>

\* index.load(other.dump())
Load(i, j) ==
    /\ Called
    /\ LET blob == IndexDump(idx[j], heap)
           r == IndexLoad(i, idx[i], heap, blob)
       IN  /\ idx' = [idx EXCEPT ![i] = r.dict]
           /\ heap' = r.heap
           /\ last' = Call("load", i, r.exc)
    /\ UNCHANGED <<file, cache>>

\* the cache server loses the entry (eviction, restart): mc.get finds
\* nothing from then on
CacheMiss ==
    /\ Called
    /\ cache # None
    /\ cache' = None
    /\ last' = Call("evict", 0, NoExc)
    /\ UNCHANGED <<heap, idx, file>>

\* the score statement run once more on a document's score, for a field
\* of the given weight and the distances between this clause's locations
\* and the previous clause's
UpdateScore(weight, distances) ==
    /\ scoring.exc = NoExc
    /\ scoring.updates < MaxUpdates
    /\ LET r == ScoreUpdate(scoring.score, weight, distances)
       IN  scoring' = [score |-> r.score, exc |-> r.exc,
                       updates |-> scoring.updates + 1]
    /\ UNCHANGED <<heap, idx, file, cache, last, calls>>

Next ==
    \/ \E i \in IndexIds, fields \in Schemas : Construct(i, fields)
    \/ \E fields \in DocInputs : NewDocument(fields)
    \/ \E i \in IndexIds, addr \in CallerAddrs : Add(i, addr)
    \/ \E i \in IndexIds, query \in Queries : Search(i, query)
    \/ \E i \in IndexIds, mc \in BOOLEAN : Save(i, mc)
    \/ \E i \in IndexIds, mc \in BOOLEAN : Open(i, mc)
    \/ \E i, j \in IndexIds : Load(i, j)
    \/ CacheMiss

Spec == Init /\ [][Next]_vars

\* The score statement by itself: it is applied to a score that starts at
\* 0, once per matching field of each inclusion clause.
Weights == {1, 5, 9, 10}
Distances == {0 - 1, 0, 1, 2}
DistanceLists == UNION {[1..n -> Distances] : n \in 0..MaxDistances}

ScoreNext ==
    \E weight \in Weights, distances \in DistanceLists :
        UpdateScore(weight, distances)

ScoreSpec == Init /\ [][ScoreNext]_vars

\* Index.add on schemas with an alias (copy_to): the target field declared
\* and indexed (the module's example), declared but not indexed, and not
\* declared at all.  The documents give the source field one value or
\* several, or give the source and the target a value each.
UnindexedTargetFields ==
    << Field("keyword", TRUE, TRUE, Some("keyword_str"), 5, "Tokenizer"),
       Field("keyword_str", FALSE, TRUE, None, 0, "TokenizerNot") >>

AbsentTargetFields ==
    << Field("keyword", TRUE, TRUE, Some("keyword_str"), 5, "Tokenizer") >>

AliasSchemas == {ExampleFields, UnindexedTargetFields, AbsentTargetFields}

AliasDocInputs ==
    { [keyword |-> StrValue(<<"a">>)],
      [keyword |-> ListValue(<< <<"a">>, <<"b", " ", "a">> >>)],
      [keyword |-> StrValue(<<"a">>), keyword_str |-> StrValue(<<"b">>)] }

AliasInit ==
    /\ heap = [a \in Addrs |-> NoObj]
    /\ \E fields \in AliasSchemas :
          idx = [i \in IndexIds |->
                    IF i = 1 THEN IndexInit(fields).dict ELSE EmptyDict]
    /\ file = None
    /\ cache = None
    /\ last = Call("none", 0, NoExc)
    /\ calls = 0
    /\ scoring = [score |-> Rat(0, 1), exc |-> NoExc, updates |-> 0]

AliasNext ==
    \/ \E fields \in AliasDocInputs : NewDocument(fields)
    \/ \E addr \in CallerAddrs : Add(1, addr)

AliasSpec == AliasInit /\ [][AliasNext]_vars

(***************************************************************************)
(* What the claims speak of.                                               *)
(***************************************************************************)
Established(i) == idx[i] # EmptyDict

\* the documents of d that have token t in field_name's postings
Located(d, field_name, t) ==
    IF t \in DOMAIN d.fields[field_name].tokens
    THEN DOMAIN d.fields[field_name].tokens[t] ELSE {}

WeightedNames(d) == {d.weighted_fields[k][2] : k \in DOMAIN d.weighted_fields}

\* the documents that have token t in some weighted field
LocatedWeighted(d, t) ==
    UNION {Located(d, n, t) : n \in WeightedNames(d)}

ResultIds(r) == {r.document_scores[k][2] : k \in DOMAIN r.document_scores}

Tokens == {<<"a">>, <<"b">>}

(***************************************************************************)
(* C1.  Whatever documents have been added, searching a token that a       *)
(* document has in a stored, indexed, weighted field completes and lists   *)
(* that document.                                                          *)
(***************************************************************************)
C1_SearchFindsAddedDocument ==
    \A i \in IndexIds : Established(i) =>
      \A n \in WeightedNames(idx[i]), t \in Tokens :
        idx[i].fields[n].store /\ idx[i].fields[n].index =>
          \A id \in Located(idx[i], n, t) :
            LET r == IndexSearch(idx[i], heap, t)
            IN  /\ r.exc = NoExc
                /\ idx[i].documents[id] \in Range(r.documents)

(***************************************************************************)
(* C2.  The query '-t' completes and leaves exactly the documents that do  *)
(* not have t in any weighted field, also when some weighted field has no  *)
(* posting for t at all.                                                   *)
(***************************************************************************)
C2_ExclusionRemovesExactlyTheMatching ==
    \A i \in IndexIds : Established(i) =>
      \A t \in Tokens :
        LET r == IndexSearch(idx[i], heap, <<"-">> \o t)
        IN  /\ r.exc = NoExc
            /\ ResultIds(r) =
                  (DOMAIN idx[i].documents) \ LocatedWeighted(idx[i], t)

(***************************************************************************)
(* C4.  A query of inclusion words (bare or with '+') completes and leaves *)
(* exactly the documents that have every one of its words in a weighted    *)
(* field.                                                                  *)
(***************************************************************************)
InclusionQueries ==
    { [query |-> <<"a">>, words |-> {<<"a">>}],
      [query |-> <<"+", "b">>, words |-> {<<"b">>}],
      [query |-> <<"a", " ", "b">>, words |-> {<<"a">>, <<"b">>}] }

C4_InclusionIntersects ==
    \A i \in IndexIds : Established(i) /\ idx[i].documents # EmptyDict =>
      \A q \in InclusionQueries :
        LET r == IndexSearch(idx[i], heap, q.query)
        IN  /\ r.exc = NoExc
            /\ ResultIds(r) =
                  {id \in DOMAIN idx[i].documents :
                      \A w \in q.words : id \in LocatedWeighted(idx[i], w)}

(***************************************************************************)
(* C7.  Opening a new instance loads what the snapshot file holds at that  *)
(* moment, with or without the memcache module, whatever saves went        *)
(* before.                                                                 *)
(***************************************************************************)
C7_OpenLoadsTheFile ==
    \A i \in IndexIds, mc \in BOOLEAN :
      ~Established(i) /\ file # None =>
        LET r == IndexOpen(i, idx[i], heap, mc, cache, file)
        IN  r.exc = NoExc /\ r.blob = file

(***************************************************************************)
(* C8.  An add that fails because the document names a field the schema    *)
(* does not have leaves the index as it was: the id counter, the document  *)
(* store and every field's postings.                                       *)
(***************************************************************************)
C8_FailedAddLeavesIndexUnchanged ==
    [][\A i \in IndexIds :
         (/\ last'.op = "add" /\ last'.i = i
          /\ last'.exc = "IndexException"
          /\ Established(i))
         => idx'[i] = idx[i]]_vars

(***************************************************************************)
(* C9.  Ids are handed out in increasing order from 0, one per add, the    *)
(* keys of the document store are 0..doc_counter-1, and a document that    *)
(* has an id keeps it.                                                     *)
(***************************************************************************)
\* an add takes the next id, and nothing else moves the counter or the keys
IdsSequential ==
    \A i \in IndexIds : Established(i) /\ Established(i)' =>
       IF last'.op = "add" /\ last'.i = i
       THEN /\ idx'[i].doc_counter = idx[i].doc_counter + 1
            /\ DOMAIN idx'[i].documents =
                  (DOMAIN idx[i].documents) \cup {idx[i].doc_counter}
       ELSE /\ idx'[i].doc_counter = idx[i].doc_counter
            /\ DOMAIN idx'[i].documents = DOMAIN idx[i].documents

KeysAreCounted ==
    \A i \in IndexIds : Established(i) =>
       DOMAIN idx[i].documents = 0..(idx[i].doc_counter - 1)

IdsKept ==
    \A a \in Addrs :
       heap[a] # NoObj /\ heap[a].id # None => heap'[a].id = heap[a].id

C9_IdsMonotonicAndNeverReassigned ==
    [][IdsSequential /\ KeysAreCounted' /\ IdsKept]_vars

(***************************************************************************)
(* C10.  After a document with a field declared store=False (and indexed)  *)
(* has been added, the field's tokens are in its postings, searching one   *)
(* of them finds the document, and the field is no longer among the        *)
(* document's fields.                                                      *)
(***************************************************************************)
\* the tokens a value gives under a field's tokenizer
ValueTokens(field, value) ==
    IF value.kind = "list"
    THEN UNION {Range(tokenize(field.tokenizer, StrValue(value.items[k])).tokens)
                  : k \in DOMAIN value.items}
    ELSE Range(tokenize(field.tokenizer, value).tokens)

C10_NotStoredFieldSearchableAndAbsent ==
    [][\A i \in IndexIds :
         (last'.op = "add" /\ last'.i = i /\ last'.exc = NoExc) =>
            LET id == idx[i].doc_counter
                addr == idx'[i].documents[id]
            IN  \A n \in DOMAIN heap[addr].fields :
                  ~idx[i].fields[n].store /\ idx[i].fields[n].index =>
                     /\ \A t \in ValueTokens(idx[i].fields[n],
                                             heap[addr].fields[n]) :
                           /\ id \in Located(idx'[i], n, t)
                           /\ LET r == IndexSearch(idx'[i], heap', t)
                              IN  r.exc = NoExc /\ addr \in Range(r.documents)
                     /\ n \notin DOMAIN heap'[addr].fields]_vars

(***************************************************************************)
(* C5.  Dumping an index and loading the result into a new instance, or    *)
(* saving it and opening the file in a new instance of the same process    *)
(* (the memcache client there for both calls or for neither), gives        *)
(* the same schema, postings, id counter and document store (the same      *)
(* documents under the same ids, shared where they were shared), and every *)
(* query then has the same outcome, the same ranked ids and scores, and    *)
(* lists documents with the same contents.                                 *)
(***************************************************************************)
SameStore(d1, hp1, d2, hp2) ==
    /\ DOMAIN d1.documents = DOMAIN d2.documents
    /\ \A id \in DOMAIN d1.documents :
          hp1[d1.documents[id]] = hp2[d2.documents[id]]
    /\ \A id1, id2 \in DOMAIN d1.documents :
          (d1.documents[id1] = d1.documents[id2])
             <=> (d2.documents[id1] = d2.documents[id2])

SameIndex(d1, hp1, d2, hp2) ==
    IF d1 = EmptyDict \/ d2 = EmptyDict THEN d1 = d2
    ELSE /\ d1.fields = d2.fields
         /\ d1.weighted_fields = d2.weighted_fields
         /\ d1.doc_counter = d2.doc_counter
         /\ SameStore(d1, hp1, d2, hp2)

SameResults(d1, hp1, d2, hp2, query) ==
    LET r1 == IndexSearch(d1, hp1, query)
        r2 == IndexSearch(d2, hp2, query)
    IN  /\ r1.exc = r2.exc
        /\ r1.document_scores = r2.document_scores
        /\ Len(r1.documents) = Len(r2.documents)
        /\ \A k \in DOMAIN r1.documents :
              r1.heap[r1.documents[k]] = r2.heap[r2.documents[k]]

RoundTrip(i, r) ==
    /\ r.exc = NoExc
    /\ SameIndex(idx[i], heap, r.dict, r.heap)
    /\ \A query \in Queries :
          SameResults(idx[i], heap, r.dict, r.heap, query)

C6_LoadRefusedOnEstablished ==
    [][\A i \in IndexIds :
         (last'.op \in {"load", "open"} /\ last'.i = i
            /\ last'.exc # "IOError") =>
            IF Established(i)
            THEN /\ last'.exc = "IndexException"
                 /\ idx' = idx /\ heap' = heap
            ELSE last'.exc = NoExc]_vars

\* a load has just been refused by an instance that holds a document
C6_Witness ==
    /\ last.op \in {"load", "open"} /\ last.exc = "IndexException"
    /\ Established(last.i) /\ idx[last.i].documents # EmptyDict

C11_AliasCopiedOrSkipped ==
    [][\A i \in IndexIds :
         (last'.op = "add" /\ last'.i = i /\ Established(i)) =>
            LET d == idx[i]
                id == d.doc_counter
                addr == idx'[i].documents[id]
                doc == heap[addr]
            IN  (/\ DOMAIN doc.fields \subseteq DOMAIN d.fields
                 /\ \A n \in DOMAIN doc.fields : doc.fields[n] # NoneValue) =>
                   /\ last'.exc = NoExc
                   /\ \A n \in DOMAIN doc.fields :
                        d.fields[n].copy_to # None =>
                           LET target == d.fields[n].copy_to[1]
                           IN  IF target \notin DOMAIN d.fields
                               THEN TRUE
                               ELSE IF d.fields[target].index
                               THEN \A t \in ValueTokens(d.fields[target],
                                                         doc.fields[n]) :
                                       id \in Located(idx'[i], target, t)
                               ELSE idx'[i].fields[target].tokens
                                       = d.fields[target].tokens]_vars

(***************************************************************************)
(* C18.  In every field's posting map, for each document id and occurrence *)
(* the recorded positions are 0..n-1, each recorded once and under one     *)
(* token; also when the field is given a value directly and as an alias    *)
(* target by the same document.                                            *)
(***************************************************************************)
\* the tokens of a posting map that have document id, occurrence f
TokensAt(tokens, id, f) ==
    {t \in DOMAIN tokens : id \in DOMAIN tokens[t] /\ f \in DOMAIN tokens[t][id]}

\* the entries <<token, k>> of the position lists of document id, occurrence f
Entries(tokens, id, f) ==
    UNION {{<<t, k>> : k \in DOMAIN tokens[t][id][f]}
             : t \in TokensAt(tokens, id, f)}

Position(tokens, id, f, e) == tokens[e[1]][id][f][e[2]]

OccurrencesOf(tokens, id) ==
    UNION {DOMAIN tokens[t][id] : t \in {u \in DOMAIN tokens : id \in DOMAIN tokens[u]}}

PostingsWellFormed(tokens, id) ==
    \A f \in OccurrencesOf(tokens, id) :
       LET E == Entries(tokens, id, f)
       IN  /\ \A e1, e2 \in E :
                Position(tokens, id, f, e1) = Position(tokens, id, f, e2)
                   => e1 = e2
           /\ {Position(tokens, id, f, e) : e \in E} = 0..(Cardinality(E) - 1)

C18_PostingMapInvariant ==
    \A i \in IndexIds : Established(i) =>
       \A n \in DOMAIN idx[i].fields :
          \A id \in DOMAIN idx[i].documents :
             PostingsWellFormed(idx[i].fields[n].tokens, id)

(***************************************************************************)
(* C12.  Index(fields=...) with a field list that names a field twice      *)
(* fails with the index exception and no index comes into being; with      *)
(* distinct names it succeeds.  So in every index each field is kept under *)
(* its own name and no name is listed twice among the weighted fields.     *)
(***************************************************************************)
NamedTwice(fields) ==
    \E j, k \in DOMAIN fields : j # k /\ fields[j].name = fields[k].name

NamesUnique(d) ==
    d # EmptyDict =>
       /\ \A n \in DOMAIN d.fields : d.fields[n].name = n
       /\ \A j, k \in DOMAIN d.weighted_fields :
             d.weighted_fields[j][2] = d.weighted_fields[k][2] => j = k

C12_DuplicateFieldNamesRefused ==
    [][/\ \A i \in IndexIds : NamesUnique(idx[i]) /\ NamesUnique(idx'[i])
       /\ \A i \in IndexIds, fields \in Schemas :
             Construct(i, fields) =>
                IF NamedTwice(fields)
                THEN /\ last'.exc = "IndexException"
                     /\ idx' = idx
                     /\ ~Established(i)'
                ELSE /\ last'.exc = NoExc
                     /\ DOMAIN idx'[i].fields
                           = {fields[k].name : k \in DOMAIN fields}]_vars

\* a construction has just been refused
C12_Witness ==
    /\ last.op = "construct" /\ last.exc = "IndexException"
    /\ ~Established(last.i)

(***************************************************************************)
(* C13.  A search for the phrase "a b" that completes lists only documents *)
(* that have the phrase's tokens at consecutive positions of one           *)
(* occurrence of some field.                                               *)
(***************************************************************************)
PhraseText == <<"a", " ", "b">>

PhraseQuery == <<"\"">> \o PhraseText \o <<"\"">>

\* token w is at position p of occurrence f of document id
At(tokens, w, id, f, p) ==
    /\ w \in DOMAIN tokens
    /\ id \in DOMAIN tokens[w]
    /\ f \in DOMAIN tokens[w][id]
    /\ p \in Range(tokens[w][id][f])

\* document id has the words as an unbroken run in the field
HasRun(field, id, words) ==
    /\ words # <<>>
    /\ \E f \in OccurrencesOf(field.tokens, id) :
          \E p \in {q \in 0..Len(PhraseText) :
                      At(field.tokens, words[1], id, f, q)} :
             \A k \in DOMAIN words :
                At(field.tokens, words[k], id, f, p + k - 1)

C13_PhraseKeepsConsecutiveRuns ==
    \A i \in IndexIds : Established(i) =>
       LET r == IndexSearch(idx[i], heap, PhraseQuery)
       IN  r.exc = NoExc =>
              \A id \in ResultIds(r) :
                 \E n \in DOMAIN idx[i].fields :
                    HasRun(idx[i].fields[n], id,
                           tokenize(idx[i].fields[n].tokenizer,
                                    StrValue(PhraseText)).tokens)

(***************************************************************************)
(* C14.  A search with a field-scoped clause fails with the index          *)
(* exception when the field is not declared, and otherwise completes and   *)
(* leaves the documents that have the term in that field.                  *)
(***************************************************************************)
FieldQuery(name) == name \o <<":", "a">>

C14_FieldScopedClause ==
    \A i \in IndexIds : Established(i) =>
       /\ IndexSearch(idx[i], heap, FieldQuery(<<"t">>)).exc = "IndexException"
       /\ LET r == IndexSearch(idx[i], heap,
                               FieldQuery(<<"t", "i", "t", "l", "e">>))
          IN  /\ r.exc = NoExc
              /\ ResultIds(r) = Located(idx[i], "title", <<"a">>)

(***************************************************************************)
(* C17.  For the posting maps of any two tokens of a field, as the         *)
(* sub-tokens of one clause would give them, get_consecutive returns       *)
(* exactly the locations (document, occurrence, position p) of the first   *)
(* for which the second has (document, occurrence, p - 1).                 *)
(***************************************************************************)
\* the locations of a map as triples <<doc_id, field_id, token_id>>
Triples(locations) ==
    UNION {UNION {{<<doc_id, field_id, token_id>> :
                     token_id \in Range(locations[doc_id][field_id])}
                    : field_id \in DOMAIN locations[doc_id]}
             : doc_id \in DOMAIN locations}

C17_ConsecutiveIsPositionPlusOne ==
    \A i \in IndexIds : Established(i) =>
       \A n \in DOMAIN idx[i].fields :
          LET tokens == idx[i].fields[n].tokens
          IN  \A t, u \in DOMAIN tokens :
                 Triples(get_consecutive(tokens[t], tokens[u])) =
                    {x \in Triples(tokens[t]) :
                        <<x[1], x[2], x[3] - 1>> \in Triples(tokens[u])}

(***************************************************************************)
(* C15.  When a search completes, ResultSet.documents are the documents    *)
(* of the candidates that the clauses left, in non-increasing order of     *)
(* score, and each listed document's score is the candidate's score.       *)
(* populate orders any candidates so, whatever their scores.               *)
(***************************************************************************)
\* the candidates after the clauses, before populate
Survivors(d, query) ==
    LET ids == IdList(d.documents)
    IN  SearchParts(d,
                    [exc |-> NoExc,
                     document_scores |-> [k \in DOMAIN ids |-> <<0, ids[k]>>],
                     previous_locations |-> Some(EmptyDict)],
                    parse_query(query), 1)

\* r lists the documents of the candidates, highest score first
Ranked(d, candidates, r) ==
    /\ Len(r.document_scores) = Len(candidates)
    /\ Range(r.document_scores) = Range(candidates)
    /\ DOMAIN r.documents = DOMAIN r.document_scores
    /\ \A k \in DOMAIN r.documents :
          r.documents[k] = d.documents[r.document_scores[k][2]]
    /\ \A k \in 1..(Len(r.document_scores) - 1) :
          r.document_scores[k][1] >= r.document_scores[k + 1][1]

ScoreValues == {0, 5, 9}

C15_DocumentsRankedByScore ==
    \A i \in IndexIds : Established(i) =>
       /\ \A query \in Queries \cup {<<>>} :
             LET r == IndexSearch(idx[i], heap, query)
             IN  r.exc = NoExc =>
                    /\ Ranked(idx[i], Survivors(idx[i], query).document_scores, r)
                    /\ \A k \in DOMAIN r.documents :
                          r.heap[r.documents[k]].score
                             = Some(r.document_scores[k][1])
       /\ \A score \in [DOMAIN idx[i].documents -> ScoreValues] :
             LET ids == IdList(idx[i].documents)
                 candidates == [k \in DOMAIN ids |-> <<score[ids[k]], ids[k]>>]
             IN  Ranked(idx[i], candidates,
                        populate(idx[i], heap,
                                 [exc |-> NoExc,
                                  document_scores |-> candidates,
                                  previous_locations |-> Some(EmptyDict)]))

\* a search has just completed on an index of two document ids and has
\* given a score to every stored document
C15_Witness ==
    /\ last.op = "search" /\ last.exc = NoExc
    /\ Established(last.i)
    /\ Cardinality(DOMAIN idx[last.i].documents) >= 2
    /\ \A id \in DOMAIN idx[last.i].documents :
          heap[idx[last.i].documents[id]].score = Some(0)

(***************************************************************************)
(* C16.  No call but add changes an index that holds state: its schema,    *)
(* postings, id counter and document store, and the fields and id of the   *)
(* stored documents, are the same after a search, whether it completes or  *)
(* fails, as before it (the score of a stored document is not).            *)
(***************************************************************************)
StoredUnchanged(i) ==
    /\ idx'[i] = idx[i]
    /\ \A id \in DOMAIN idx[i].documents :
          LET a == idx[i].documents[id]
          IN  /\ heap'[a].fields = heap[a].fields
              /\ heap'[a].id = heap[a].id

C16_OnlyAddChangesTheIndex ==
    [][\A i \in IndexIds :
          Established(i) /\ last'.op # "add" => StoredUnchanged(i)]_vars

\* a search has just completed and has set the score of a stored document
C16_Witness ==
    /\ last.op = "search" /\ last.exc = NoExc
    /\ Established(last.i)
    /\ \E id \in DOMAIN idx[last.i].documents :
          heap[idx[last.i].documents[id]].score # None

====
